---- MODULE Spec2Model ----
(***************************************************************************)
(* Model of src/app.py: the /api/analyze request handler (analyze_suburb)  *)
(* and the pure transform analyze_property_data.                           *)
(*                                                                         *)
(* JSON values are tagged records [t, v]:                                  *)
(*   "absent" the key is not in the mapping, "null" JSON null (None),      *)
(*   "num" a number, "str" a string (a sequence of one-character strings), *)
(*   "list" a JSON array, "map" a JSON object (v is a record of its keys). *)
(* Averages are computed on integers exactly as Python computes them on    *)
(* floats for the magnitudes used here: round() is round-half-to-even,     *)
(* avg_beds is kept in tenths, risk_score in halves.                       *)
(***************************************************************************)
EXTENDS Integers, Sequences, FiniteSets, TLC

\* ---------------------------------------------------------------- bounds
\* longest `results` sequence drawn over the full record domain
MaxLen == 2
\* longest `results` sequence drawn over the two-record sample domain
MaxSampleLen == 6

\* ------------------------------------------------------ program constants
\* properties[:5]
SampleSize == 5
\* (avg_dom - 20) * 1.5
DomBaseline == 20
\* (avg_beds / 4) * 100
RefBeds == 4

\* ------------------------------------------------------------ JSON values
Absent == [t |-> "absent", v |-> 0]
JNull == [t |-> "null", v |-> 0]
Num(n) == [t |-> "num", v |-> n]
Str(s) == [t |-> "str", v |-> s]
List(s) == [t |-> "list", v |-> s]
Map(r) == [t |-> "map", v |-> r]

\* Python truthiness of a value obtained with dict.get (absent -> None)
Truthy(x) ==
  CASE x.t \in {"absent", "null"} -> FALSE
    [] x.t = "num" -> x.v # 0
    [] x.t \in {"str", "list"} -> Len(x.v) > 0
    [] OTHER -> TRUE

\* ------------------------------------------------------------ arithmetic
Max2(a, b) == IF a >= b THEN a ELSE b
Min2(a, b) == IF a <= b THEN a ELSE b

\* floor division for any sign of n, d > 0
FloorDiv(n, d) == IF n >= 0 THEN n \div d ELSE -((-n + d - 1) \div d)

\* Python round(n / d): nearest integer, ties to the even one
PyRound(n, d) ==
  LET q == FloorDiv(n, d)
      r == n - q * d
  IN  IF 2 * r > d THEN q + 1
      ELSE IF 2 * r < d THEN q
      ELSE IF q % 2 = 0 THEN q ELSE q + 1

RECURSIVE SumSeq(_)
SumSeq(s) == IF s = <<>> THEN 0 ELSE Head(s) + SumSeq(Tail(s))

\* ------------------------------------------- datetime.strptime / date
DigitVal(c) ==
  CASE c = "0" -> 0 [] c = "1" -> 1 [] c = "2" -> 2 [] c = "3" -> 3
    [] c = "4" -> 4 [] c = "5" -> 5 [] c = "6" -> 6 [] c = "7" -> 7
    [] c = "8" -> 8 [] c = "9" -> 9 [] OTHER -> -1

IsDigits(s) == \A i \in 1..Len(s) : DigitVal(s[i]) >= 0

RECURSIVE DecVal(_)
DecVal(s) == IF s = <<>> THEN 0 ELSE 10 * DecVal(SubSeq(s, 1, Len(s) - 1)) + DigitVal(s[Len(s)])

\* the text split at every "-"
RECURSIVE SplitDash(_)
SplitDash(s) ==
  IF \A i \in 1..Len(s) : s[i] # "-" THEN <<s>>
  ELSE LET k == CHOOSE i \in 1..Len(s) : s[i] = "-" /\ \A j \in 1..(i - 1) : s[j] # "-"
       IN  <<SubSeq(s, 1, k - 1)>> \o SplitDash(SubSeq(s, k + 1, Len(s)))

IsLeap(y) == (y % 4 = 0) /\ ((y % 100 # 0) \/ (y % 400 = 0))

DaysInMonth(y, m) ==
  IF m = 2 THEN (IF IsLeap(y) THEN 29 ELSE 28)
  ELSE IF m \in {4, 6, 9, 11} THEN 30 ELSE 31

RECURSIVE DaysBeforeMonth(_, _)
DaysBeforeMonth(y, m) == IF m = 1 THEN 0 ELSE DaysBeforeMonth(y, m - 1) + DaysInMonth(y, m - 1)

\* date.toordinal(): day number, 0001-01-01 is day 1
ToOrdinal(dt) ==
  LET y == dt.y - 1
  IN  y * 365 + (y \div 4) - (y \div 100) + (y \div 400) + DaysBeforeMonth(dt.y, dt.m) + dt.d

\* datetime.strptime(s, '%Y-%m-%d').date(): [ok, y, m, d]; ok = FALSE is ValueError
Strptime(s) ==
  LET parts == SplitDash(s)
      bad == [ok |-> FALSE, y |-> 0, m |-> 0, d |-> 0]
  IN  IF Len(parts) # 3 THEN bad
      ELSE IF ~(Len(parts[1]) = 4 /\ Len(parts[2]) \in 1..2 /\ Len(parts[3]) \in 1..2) THEN bad
      ELSE IF ~(IsDigits(parts[1]) /\ IsDigits(parts[2]) /\ IsDigits(parts[3])) THEN bad
      ELSE LET y == DecVal(parts[1])
               m == DecVal(parts[2])
               d == DecVal(parts[3])
           IN  IF y >= 1 /\ m \in 1..12 /\ d >= 1 /\ d <= DaysInMonth(y, m)
               THEN [ok |-> TRUE, y |-> y, m |-> m, d |-> d]
               ELSE bad

\* ------------------------------------------------ analyze_property_data
\* dict.get(key, default) on a key that may be absent
GetOr(x, default) == IF x.t = "absent" THEN default ELSE x

\* p.get(...) needs a mapping: anything else has no attribute 'get'
AllMappings(properties) == \A i \in 1..Len(properties) : properties[i].t = "map"

\* variant: data.get('results') without the [] default
GetResults_nodefault(data) == IF data.v.results.t = "absent" THEN JNull ELSE data.v.results
\* data.get('results', [])
GetResults(data) == GetOr(data.v.results, List(<<>>))

\* variant: the filter written as a truth test, `if p.get('price')`
PriceKept_truthy(p) == Truthy(p.v.price)
\* filter of the price comprehension: p.get('price') is not None
PriceKept(p) == p.v.price.t \notin {"absent", "null"}

\* sale_prices = [p.get('price', 0) for p in properties if p.get('price') is not None]
RECURSIVE sale_prices(_)
sale_prices(properties) ==
  IF properties = <<>> THEN <<>>
  ELSE (IF PriceKept(Head(properties)) THEN <<GetOr(Head(properties).v.price, Num(0))>> ELSE <<>>)
       \o sale_prices(Tail(properties))

\* the numbers held by a list of "num" values
RECURSIVE NumVals(_)
NumVals(s) == IF s = <<>> THEN <<>> ELSE <<Head(s).v>> \o NumVals(Tail(s))

\* round(sum(xs) / len(xs) if xs else 0)
RoundedMean(xs) == IF xs = <<>> THEN 0 ELSE PyRound(SumSeq(xs), Len(xs))

\* round(sum(xs) / len(xs) if xs else 0, 1), in tenths
RoundedMean1(xs) == IF xs = <<>> THEN 0 ELSE PyRound(10 * SumSeq(xs), Len(xs))

\* body of the listing-date loop for one record: the days to append, if any
DaysOnMarket(p, today) ==
  LET listing_date_str == p.v.listing_date
  IN  IF ~Truthy(listing_date_str) THEN <<>>
      ELSE IF listing_date_str.t # "str" THEN <<>>
      ELSE LET listing_date == Strptime(listing_date_str.v)
           IN  IF listing_date.ok THEN <<ToOrdinal(today) - ToOrdinal(listing_date)>> ELSE <<>>

RECURSIVE dom_list(_, _)
dom_list(properties, today) ==
  IF properties = <<>> THEN <<>>
  ELSE DaysOnMarket(Head(properties), today) \o dom_list(Tail(properties), today)

\* variant: one point per day instead of 1.5
risk_score2_perday(avg_dom) == Max2(0, Min2(200, 200 - 2 * (avg_dom - DomBaseline)))
\* max(0, min(100, 100 - (avg_dom - 20) * 1.5)), in halves of a point
risk_score2(avg_dom) == Max2(0, Min2(200, 200 - 3 * (avg_dom - DomBaseline)))

\* body of the bedrooms loop for one record: [exc, add]
BedroomsOf(p) ==
  LET attrs == GetOr(p.v.attributes, Map([bedrooms |-> Absent]))
  IN  IF attrs.t # "map" THEN [exc |-> "AttributeError", add |-> <<>>]
      ELSE LET beds == GetOr(attrs.v.bedrooms, Num(0))
           IN  IF ~Truthy(beds) THEN [exc |-> "", add |-> <<>>]
               ELSE IF beds.t # "num" THEN [exc |-> "TypeError", add |-> <<>>]
               ELSE IF beds.v > 0 THEN [exc |-> "", add |-> <<beds.v>>]
               ELSE [exc |-> "", add |-> <<>>]

\* the bedrooms loop: the first exception raised, or the list built
RECURSIVE bedrooms(_)
bedrooms(properties) ==
  IF properties = <<>> THEN [exc |-> "", list |-> <<>>]
  ELSE LET h == BedroomsOf(Head(properties))
       IN  IF h.exc # "" THEN [exc |-> h.exc, list |-> <<>>]
           ELSE LET r == bedrooms(Tail(properties))
                IN  IF r.exc # "" THEN r ELSE [exc |-> "", list |-> h.add \o r.list]

\* variant: without the min(100, ...)
growth_score_noclamp(avg_beds10) == Max2(0, (avg_beds10 * 100) \div (10 * RefBeds))
\* int(max(0, min(100, (avg_beds / 4) * 100))), avg_beds in tenths
growth_score(avg_beds10) == Max2(0, Min2(100, (avg_beds10 * 100) \div (10 * RefBeds)))

\* variant: a slice one record short
RawSample_short(properties) == SubSeq(properties, 1, Min2(SampleSize - 1, Len(properties)))
\* properties[:5]
RawSample(properties) == SubSeq(properties, 1, Min2(SampleSize, Len(properties)))

\* `not properties` for a value that has a len(): empty list, string or object
NoProperties(properties) ==
  IF properties.t = "map" THEN \A k \in DOMAIN properties.v : properties.v[k].t = "absent"
  ELSE properties.v = <<>>

Raise(e) == [kind |-> "raise", exc |-> e]

\* the whole function: [kind |-> "raise"], [kind |-> "none"] (returns None)
\* or [kind |-> "ok"] with the returned mapping and the lists it built
analyze_property_data(data, today) ==
  IF data.t # "map" THEN Raise("AttributeError")
  ELSE LET properties == GetResults(data)
       IN  IF properties.t \notin {"list", "str", "map"} THEN Raise("TypeError")
           ELSE IF NoProperties(properties) THEN [kind |-> "none"]
           ELSE IF properties.t # "list" THEN Raise("AttributeError")
           ELSE IF ~AllMappings(properties.v) THEN Raise("AttributeError")
           ELSE LET prices == sale_prices(properties.v)
                IN  IF \E i \in 1..Len(prices) : prices[i].t # "num" THEN Raise("TypeError")
                    ELSE LET avg_price == RoundedMean(NumVals(prices))
                             doms == dom_list(properties.v, today)
                             avg_dom == RoundedMean(doms)
                             beds == bedrooms(properties.v)
                         IN  IF beds.exc # "" THEN Raise(beds.exc)
                             ELSE LET avg_beds == RoundedMean1(beds.list)
                                  IN  [kind |-> "ok",
                                       summary |-> [total_listings |-> Len(properties.v),
                                                    avg_sale_price |-> avg_price,
                                                    avg_days_on_market |-> avg_dom,
                                                    avg_bedrooms |-> avg_beds],
                                       scorecard |-> [liquidity_risk |-> risk_score2(avg_dom) \div 2,
                                                      family_growth_potential |-> growth_score(avg_beds)],
                                       raw_properties |-> RawSample(properties.v),
                                       built |-> [sale_prices |-> NumVals(prices),
                                                  dom_list |-> doms,
                                                  bedrooms |-> beds.list]]

\* ------------------------------------------------------- analyze_suburb
\* pc            position of the handler: idle, start, get, status, json, analyze, result, except, done
\* suburb_name   request.args.get('suburb'): JNull (None) when the parameter is missing
\* today         date.today() of the request
\* listings      the listings the upstream API holds for the suburb
\* upstream      what the upstream API does with the outbound GET of this request
\* raw_data      response.json()
\* analysis      analysis_result, with the lists the analyzer built
\* exc           the exception in flight, "" if none
\* responses     the (body, status) pairs returned for this request
\* getCount      outbound GETs issued for this request
\* analyzerRuns  calls of analyze_property_data for this request
\* unhandled     an exception left the handler
VARIABLES pc, suburb_name, today, listings, upstream, raw_data, analysis, exc, responses, getCount, analyzerRuns, unhandled

vars == <<pc, suburb_name, today, listings, upstream, raw_data, analysis, exc, responses, getCount, analyzerRuns, unhandled>>

\* f"{status_code}"
RECURSIVE IntToChars(_)
IntToChars(n) ==
  LET c == CASE n % 10 = 0 -> "0" [] n % 10 = 1 -> "1" [] n % 10 = 2 -> "2" [] n % 10 = 3 -> "3"
             [] n % 10 = 4 -> "4" [] n % 10 = 5 -> "5" [] n % 10 = 6 -> "6" [] n % 10 = 7 -> "7"
             [] n % 10 = 8 -> "8" [] OTHER -> "9"
  IN  IF n < 10 THEN <<c>> ELSE IntToChars(n \div 10) \o <<c>>

\* jsonify({"error": ...}), status
ErrorResponse(message, status) == [status |-> status, body |-> [error |-> message]]

\* jsonify({'suburb': ..., 'analysis': ...}), status 200 by default
OkStatus == 200
SuccessResponse(name, result) ==
  [status |-> OkStatus,
   body |-> [suburb |-> name,
             analysis |-> [summary |-> result.summary, scorecard |-> result.scorecard,
                           raw_properties |-> result.raw_properties]]]

\* variant: `if suburb_name is None`
SuburbMissing_noneonly(name) == name.t = "null"
\* if not suburb_name
SuburbMissing(name) == ~Truthy(name)

\* Response.raise_for_status(): HTTPError for 4xx and 5xx
RaisesForStatus(status) == status >= 400 /\ status < 600

\* exception classes: requests.exceptions.* and builtins
RequestExceptions == {"HTTPError", "ConnectionError", "Timeout", "TooManyRedirects", "JSONDecodeError"}
IsHTTPError(e) == e = "HTTPError"
IsRequestException(e) == e \in RequestExceptions
\* variant: a last clause `except ValueError`
IsException_valueonly(e) == e \in RequestExceptions \cup {"ValueError"}
\* except Exception: every class raised inside the try block
IsException(e) == e \in RequestExceptions \cup {"ValueError", "TypeError", "AttributeError"}

\* variant: the generic message for every code
HttpErrorMessage_generic(status_code, name) == <<"An API error occurred: HTTP ">> \o IntToChars(status_code)
\* the message chosen in `except requests.exceptions.HTTPError`
HttpErrorMessage(status_code, name) ==
  IF status_code = 401 THEN <<"API Authentication Failed. Please check the Bearer token.">>
  ELSE IF status_code = 404 THEN <<"Suburb '">> \o name \o <<"' not found or no data available.">>
  ELSE <<"An API error occurred: HTTP ">> \o IntToChars(status_code)

NoDataMessage(name) == <<"No property data found for ">> \o name \o <<". Please try a different suburb.">>

NotComputed == [kind |-> "unset"]

\* ------------------------------------------------------------ the inputs
Kew == Str(<<"K", "e", "w">>)
Suburbs == {JNull, Str(<<>>), Kew}

Todays == {[y |-> 2024, m |-> 3, d |-> 11], [y |-> 2024, m |-> 3, d |-> 12]}

Prices == {Absent, JNull, Num(0), Num(500000), Num(600000), Num(450001), Str(<<"1">>)}

ListingDates ==
  {Absent, JNull, Num(20240301), Str(<<>>),
   Str(<<"2", "0", "2", "4", "-", "0", "3", "-", "0", "1">>), Str(<<"2", "0", "2", "4", "-", "0", "2", "-", "1", "0">>), Str(<<"2", "0", "2", "4", "-", "0", "1", "-", "3", "1">>), Str(<<"2", "0", "2", "3", "-", "1", "2", "-", "0", "1">>), Str(<<"1", "9", "9", "0", "-", "0", "1", "-", "0", "1">>),
   Str(<<"2", "0", "2", "4", "-", "1", "2", "-", "2", "5">>), Str(<<"2", "0", "2", "4", "-", "0", "2", "-", "3", "0">>), Str(<<"2", "0", "2", "4", "-", "3", "-", "1">>), Str(<<"0", "1", "/", "0", "3", "/", "2", "0", "2", "4">>)}

Attributes ==
  {Absent, JNull} \cup
  {Map([bedrooms |-> b]) : b \in {Absent, JNull, Num(0), Num(-1), Num(2), Num(3), Num(5), Num(1000), Str(<<"3">>)}}

Rec(price, listing_date, attributes) ==
  Map([price |-> price, listing_date |-> listing_date, attributes |-> attributes])

\* the two records of the worked example: listed 10 and 30 days before 2024-03-11
ExampleA == Rec(Num(500000), Str(<<"2", "0", "2", "4", "-", "0", "3", "-", "0", "1">>), Map([bedrooms |-> Num(3)]))
ExampleB == Rec(Num(600000), Str(<<"2", "0", "2", "4", "-", "0", "2", "-", "1", "0">>), Map([bedrooms |-> Num(5)]))
SampleRecords == {ExampleA, ExampleB}

\* records that set one field, the two example records, and an entry that is no mapping
Records ==
  {Rec(x, Absent, Absent) : x \in Prices} \cup
  {Rec(Absent, x, Absent) : x \in ListingDates} \cup
  {Rec(Absent, Absent, x) : x \in Attributes} \cup
  SampleRecords \cup {JNull}

\* the records the upstream may add to a list: any record while the list is
\* short, an example record while the list holds example records only
Addable(list) ==
  {r \in Records :
     \/ Len(list) < MaxLen
     \/ /\ Len(list) < MaxSampleLen
        /\ r \in SampleRecords
        /\ \A i \in 1..Len(list) : list[i] \in SampleRecords}

\* the `results` of a body: absent, no list, or the listings held
ResultsValues(list) == {Absent, JNull, Num(3), Str(<<>>), Str(<<"x">>), List(list)}

NotJson == [json |-> FALSE, data |-> JNull]
Json(d) == [json |-> TRUE, data |-> d]

ListingsBody(list) == Json(Map([results |-> List(list)]))

Bodies(list) ==
  {NotJson, Json(JNull), Json(List(<<>>)), Json(Num(1))} \cup
  {Json(Map([results |-> r])) : r \in ResultsValues(list)}

SmallBodies ==
  {NotJson, Json(Map([results |-> Absent])), Json(Map([results |-> List(<<ExampleA>>)]))}

Failure(e) == [kind |-> "fail", exc |-> e, status |-> 0, body |-> NotJson]
Reply(status, body) == [kind |-> "response", exc |-> "", status |-> status, body |-> body]

SmallUpstreams ==
  {Failure(e) : e \in {"ConnectionError", "Timeout", "TooManyRedirects"}} \cup
  {Reply(c, b) : c \in {201, 304, 401, 404, 429, 500}, b \in SmallBodies}

Upstreams(list) == SmallUpstreams \cup {Reply(OkStatus, b) : b \in Bodies(list)}

\* ------------------------------------------------------------ the handler
Init ==
  /\ pc = "idle"
  /\ suburb_name = JNull
  /\ today \in Todays
  /\ listings = <<>>
  /\ upstream = Failure("ConnectionError")
  /\ raw_data = JNull
  /\ analysis = NotComputed
  /\ exc = ""
  /\ responses = <<>>
  /\ getCount = 0
  /\ analyzerRuns = 0
  /\ unhandled = FALSE

\* between requests the upstream gets a new listing
UpstreamLists ==
  /\ pc = "idle"
  /\ \E r \in Addable(listings) : listings' = Append(listings, r)
  /\ UNCHANGED <<pc, suburb_name, today, upstream, raw_data, analysis, exc, responses, getCount, analyzerRuns, unhandled>>

\* a GET /api/analyze arrives; the environment fixes what the upstream will do.
\* Every outcome is tried while the upstream holds at most one listing, the
\* plain 200 answer with the listings for every list.
Request ==
  /\ pc = "idle"
  /\ \E s \in Suburbs, u \in Upstreams(listings) :
       /\ Len(listings) <= 1 \/ (s = Kew /\ u = Reply(OkStatus, ListingsBody(listings)))
       /\ suburb_name' = s
       /\ upstream' = u
  /\ pc' = "start"
  /\ UNCHANGED <<today, listings, raw_data, analysis, exc, responses, getCount, analyzerRuns, unhandled>>

\* if not suburb_name: return 400
CheckSuburb ==
  /\ pc = "start"
  /\ IF SuburbMissing(suburb_name)
     THEN /\ responses' = Append(responses, ErrorResponse(<<"Suburb name is required.">>, 400))
          /\ pc' = "done"
     ELSE /\ pc' = "get"
          /\ UNCHANGED responses
  /\ UNCHANGED <<suburb_name, today, listings, upstream, raw_data, analysis, exc, getCount, analyzerRuns, unhandled>>

\* response = requests.get(API_URL, params=..., headers=..., timeout=10)
Get ==
  /\ pc = "get"
  /\ getCount' = getCount + 1
  /\ IF upstream.kind = "fail"
     THEN exc' = upstream.exc /\ pc' = "except"
     ELSE exc' = exc /\ pc' = "status"
  /\ UNCHANGED <<suburb_name, today, listings, upstream, raw_data, analysis, responses, analyzerRuns, unhandled>>

\* response.raise_for_status()
RaiseForStatus ==
  /\ pc = "status"
  /\ IF RaisesForStatus(upstream.status)
     THEN exc' = "HTTPError" /\ pc' = "except"
     ELSE exc' = exc /\ pc' = "json"
  /\ UNCHANGED <<suburb_name, today, listings, upstream, raw_data, analysis, responses, getCount, analyzerRuns, unhandled>>

\* raw_data = response.json(): a body that is no JSON raises
\* requests.exceptions.JSONDecodeError (requests >= 2.27) or a ValueError (older)
JsonStep ==
  /\ pc = "json"
  /\ IF upstream.body.json
     THEN /\ raw_data' = upstream.body.data
          /\ exc' = exc
          /\ pc' = "analyze"
     ELSE /\ raw_data' = raw_data
          /\ \E e \in {"JSONDecodeError", "ValueError"} : exc' = e
          /\ pc' = "except"
  /\ UNCHANGED <<suburb_name, today, listings, upstream, analysis, responses, getCount, analyzerRuns, unhandled>>

\* analysis_result = analyze_property_data(raw_data)
Analyze ==
  /\ pc = "analyze"
  /\ analyzerRuns' = analyzerRuns + 1
  /\ LET r == analyze_property_data(raw_data, today)
     IN  IF r.kind = "raise"
         THEN exc' = r.exc /\ pc' = "except" /\ analysis' = analysis
         ELSE exc' = exc /\ pc' = "result" /\ analysis' = r
  /\ UNCHANGED <<suburb_name, today, listings, upstream, raw_data, responses, getCount, unhandled>>

\* if analysis_result is None: return 404; return jsonify({...})
Respond ==
  /\ pc = "result"
  /\ responses' = Append(responses,
                         IF analysis.kind = "none"
                         THEN ErrorResponse(NoDataMessage(suburb_name.v), 404)
                         ELSE SuccessResponse(suburb_name.v, analysis))
  /\ pc' = "done"
  /\ UNCHANGED <<suburb_name, today, listings, upstream, raw_data, analysis, exc, getCount, analyzerRuns, unhandled>>

\* the except clauses, tried in order
Except ==
  /\ pc = "except"
  /\ IF IsHTTPError(exc)
     THEN LET status_code == upstream.status
          IN  /\ responses' = Append(responses,
                                     ErrorResponse(HttpErrorMessage(status_code, suburb_name.v), status_code))
              /\ unhandled' = unhandled
     ELSE IF IsRequestException(exc)
     THEN /\ responses' = Append(responses,
                                 ErrorResponse(<<"Could not connect to the external Microburbs API.">>, 503))
          /\ unhandled' = unhandled
     ELSE IF IsException(exc)
     THEN /\ responses' = Append(responses,
                                 ErrorResponse(<<"An unexpected server error occurred during analysis.">>, 500))
          /\ unhandled' = unhandled
     ELSE /\ responses' = responses
          /\ unhandled' = TRUE
  /\ exc' = ""
  /\ pc' = "done"
  /\ UNCHANGED <<suburb_name, today, listings, upstream, raw_data, analysis, getCount, analyzerRuns>>

\* the request is over: nothing of it is kept, the next one starts afresh
Finish ==
  /\ pc = "done"
  /\ pc' = "idle"
  /\ suburb_name' = JNull
  /\ \E t \in Todays : today' = t
  /\ listings' = listings
  /\ upstream' = Failure("ConnectionError")
  /\ raw_data' = JNull
  /\ analysis' = NotComputed
  /\ exc' = ""
  /\ responses' = <<>>
  /\ getCount' = 0
  /\ analyzerRuns' = 0
  /\ unhandled' = FALSE

Next == UpstreamLists \/ Request \/ CheckSuburb \/ Get \/ RaiseForStatus \/ JsonStep \/ Analyze \/ Respond \/ Except \/ Finish

Spec == Init /\ [][Next]_vars

\* the steps of the handler around the call of the analyzer
HandlerStep == CheckSuburb \/ Get \/ RaiseForStatus \/ JsonStep \/ Respond \/ Except

\* the call of the analyzer comes back: its loops run over the finite lists
\* of the payload, so it returns or raises
AnalyzerReturns == pc = "analyze" /\ pc' \in {"result", "except"}

\* the handler is synchronous code: once entered, it runs on to its return
FairSpec == Spec /\ WF_vars(HandlerStep) /\ WF_pc(AnalyzerReturns)

\* ------------------------------------------------------------ properties
\* the `results` sequence handed to the analyzer, when it is a non-empty list
HasListing ==
  /\ raw_data.t = "map"
  /\ raw_data.v.results.t = "list"
  /\ Len(raw_data.v.results.v) > 0

Listings == raw_data.v.results.v

\* the analyzer was called and has returned or raised
Analyzed == analyzerRuns = 1

\* every record is a mapping whose price is a number or missing and whose
\* attributes, if any, are a mapping with a number or no bedrooms
WellTyped(props) ==
  \A i \in 1..Len(props) :
    /\ props[i].t = "map"
    /\ props[i].v.price.t \in {"absent", "null", "num"}
    /\ \/ props[i].v.attributes.t = "absent"
       \/ /\ props[i].v.attributes.t = "map"
          /\ props[i].v.attributes.v.bedrooms.t \in {"absent", "null", "num"}

Abs(n) == IF n < 0 THEN -n ELSE n

JsonResponse(r) ==
  \/ r.status = 200 /\ DOMAIN r.body = {"suburb", "analysis"}
  \/ r.status \in 400..599 /\ DOMAIN r.body = {"error"}

\* C2: every request ends with exactly one response, a JSON body and a
\* status; every failure becomes an {"error": ...} body with an error status
\* and no exception leaves the handler.
C2_OneJsonResponse ==
  /\ [](Len(responses) <= 1 /\ ~unhandled)
  /\ [](pc = "done" =>
          /\ Len(responses) = 1
          /\ JsonResponse(responses[1])
          /\ (responses[1].status = 200 <=> analysis.kind = "ok"))
  /\ ((pc = "start") ~> (pc = "done"))

C2_Witness ==
  /\ pc = "done"
  /\ Analyzed
  /\ analysis.kind = "unset"
  /\ responses = <<[status |-> 500, body |-> [error |-> <<"An unexpected server error occurred during analysis.">>]]>>

\* the upstream answered the GET of this request with status code c
Answered(c) == getCount = 1 /\ upstream.kind = "response" /\ upstream.status = c

\* the error message the claim gives for upstream status c
IsHttpMessage(msg, c) ==
  IF c = 401 THEN msg = <<"API Authentication Failed. Please check the Bearer token.">>
  ELSE IF c = 404 THEN msg = <<"Suburb '">> \o suburb_name.v \o <<"' not found or no data available.">>
  ELSE /\ Len(msg) > 1
       /\ Head(msg) = "An API error occurred: HTTP "
       /\ IsDigits(Tail(msg))
       /\ Head(Tail(msg)) # "0"
       /\ DecVal(Tail(msg)) = c

HttpErrorForwarded(c) ==
  /\ Len(responses) = 1
  /\ responses[1].status = c
  /\ DOMAIN responses[1].body = {"error"}
  /\ IsHttpMessage(responses[1].body.error, c)
  /\ analyzerRuns = 0

\* C3 as stated: every upstream status that is not 2xx is forwarded with its
\* message, the analyzer is not run and no 200 is returned.
C3_Original ==
  \A c \in 100..599 :
    (pc = "done" /\ Answered(c) /\ c \notin 200..299) => HttpErrorForwarded(c)

\* C3 amended: every upstream status in 400..599 is forwarded as the response
\* status with the 401 / 404 / generic message, the analyzer is not run and
\* no 200 is returned.
C3_HttpErrorForwarded ==
  \A c \in 400..599 :
    (pc = "done" /\ Answered(c)) => HttpErrorForwarded(c)

C3_Witness ==
  /\ pc = "done"
  /\ Answered(429)
  /\ responses[1].status = 429

\* C4: a missing or empty suburb gives 400 "Suburb name is required." with
\* no outbound GET and no analyzer run; a GET is issued only for a non-empty
\* suburb and at most once per request.
C4_NoFetchWithoutSuburb ==
  /\ getCount <= 1
  /\ getCount = 1 => (suburb_name.t = "str" /\ suburb_name.v # <<>>)
  /\ (suburb_name = JNull \/ suburb_name = Str(<<>>)) =>
       /\ getCount = 0
       /\ analyzerRuns = 0
       /\ pc = "done" =>
            responses = <<[status |-> 400, body |-> [error |-> <<"Suburb name is required.">>]]>>

C4_Witness ==
  /\ pc = "done"
  /\ suburb_name = Str(<<>>)
  /\ Len(responses) = 1
  /\ getCount = 0

\* C5: a 2xx mapping whose `results` is empty or absent makes the analyzer
\* return None, having computed nothing, and the response is 404 "No property
\* data found for <name>. ..."; a 200 is returned only for a non-empty
\* `results` sequence.
C5_NoData ==
  /\ (/\ pc = "done"
      /\ \E c \in 200..299 : Answered(c)
      /\ upstream.body.json
      /\ upstream.body.data.t = "map"
      /\ upstream.body.data.v.results \in {Absent, List(<<>>)}) =>
       /\ analysis = [kind |-> "none"]
       /\ analyzerRuns = 1
       /\ responses = <<[status |-> 404,
                         body |-> [error |-> <<"No property data found for ">> \o suburb_name.v
                                               \o <<". Please try a different suburb.">>]]>>
  /\ (Len(responses) = 1 /\ responses[1].status = 200) => HasListing

C5_Witness ==
  /\ pc = "done"
  /\ Answered(200)
  /\ upstream.body = Json(Map([results |-> Absent]))
  /\ responses[1].status = 404

\* C6 as stated: a failure that is neither a 4xx/5xx upstream status nor an
\* unreachable upstream (a body that is no JSON or no mapping, a redirect
\* loop) gives 500 "An unexpected server error occurred during analysis.",
\* and 503 is given only when the upstream was unreachable.
C6_Claim ==
  (pc = "done" /\ getCount = 1) =>
    /\ (\/ upstream.kind = "fail" /\ upstream.exc = "TooManyRedirects"
        \/ /\ upstream.kind = "response"
           /\ upstream.status \in 200..299
           /\ (~upstream.body.json \/ upstream.body.data.t # "map")) =>
         responses = <<[status |-> 500,
                        body |-> [error |-> <<"An unexpected server error occurred during analysis.">>]]>>
    /\ (Len(responses) = 1 /\ responses[1].status = 503) =>
         (upstream.kind = "fail" /\ upstream.exc \in {"ConnectionError", "Timeout"})

NumPriced(props) == Cardinality({i \in 1..Len(props) : props[i].v.price.t = "num"})

\* C7 as stated: for a non-empty `results` of records, a missing or
\* malformed price, listing_date or attributes/bedrooms never causes an
\* error: the analyzer returns, each average is taken over the valid values
\* only, and it is 0 when there is none.
C7_Claim ==
  (Analyzed /\ HasListing /\ AllMappings(Listings)) =>
    /\ analysis.kind = "ok"
    /\ Len(analysis.built.sale_prices) = NumPriced(Listings)
    /\ analysis.built.sale_prices = <<>> => analysis.summary.avg_sale_price = 0
    /\ analysis.built.dom_list = <<>> => analysis.summary.avg_days_on_market = 0
    /\ analysis.built.bedrooms = <<>> => analysis.summary.avg_bedrooms = 0

\* C8: raw_properties is the first min(5, N) records of the input, in order
\* and unmodified, and total_listings is N; the response carries them as is.
C8_SampleIsPrefix ==
  analysis.kind = "ok" =>
    /\ HasListing
    /\ analysis.summary.total_listings = Len(Listings)
    /\ Len(analysis.raw_properties) = (IF Len(Listings) < 5 THEN Len(Listings) ELSE 5)
    /\ \A i \in 1..Len(analysis.raw_properties) : analysis.raw_properties[i] = Listings[i]
    /\ (pc = "done" /\ Len(responses) = 1) =>
         /\ responses[1].body.analysis.raw_properties = analysis.raw_properties
         /\ responses[1].body.analysis.summary.total_listings = Len(Listings)

C8_Witness ==
  /\ pc = "done"
  /\ analysis.kind = "ok"
  /\ Len(Listings) = 6
  /\ analysis.summary.total_listings = 6
  /\ Len(responses[1].body.analysis.raw_properties) = 5
  /\ Listings[1] # Listings[2]

\* days between 2024-03-11 and the listing dates of the input domain, as
\* datetime gives them; a text that is no YYYY-MM-DD date has none
DaysBeforeMarch11(text) ==
  CASE text = <<"2", "0", "2", "4", "-", "0", "3", "-", "0", "1">> -> <<10>>
    [] text = <<"2", "0", "2", "4", "-", "3", "-", "1">> -> <<10>>
    [] text = <<"2", "0", "2", "4", "-", "0", "2", "-", "1", "0">> -> <<30>>
    [] text = <<"2", "0", "2", "4", "-", "0", "1", "-", "3", "1">> -> <<40>>
    [] text = <<"2", "0", "2", "3", "-", "1", "2", "-", "0", "1">> -> <<101>>
    [] text = <<"1", "9", "9", "0", "-", "0", "1", "-", "0", "1">> -> <<12488>>
    [] text = <<"2", "0", "2", "4", "-", "1", "2", "-", "2", "5">> -> <<-289>>
    [] OTHER -> <<>>

RECURSIVE ExpectedDays(_)
ExpectedDays(props) ==
  IF props = <<>> THEN <<>>
  ELSE LET x == Head(props).v.listing_date
           d == IF x.t = "str" THEN DaysBeforeMarch11(x.v) ELSE <<>>
       IN  (IF d = <<>> THEN <<>> ELSE <<d[1] + (today.d - 11)>>) \o ExpectedDays(Tail(props))

\* C9: liquidity_risk is clamp(100 - (avg_dom - 20) * 1.5, 0, 100) truncated,
\* avg_dom being the rounded mean of the days since listing over the records
\* with a parseable date (0 if none): 100 up to avg_dom = 20, 1.5 points less
\* per day, 0 from avg_dom = 87; listings 10 and 30 days old give 20 and 100.
C9_LiquidityRisk ==
  analysis.kind = "ok" =>
    LET days == analysis.built.dom_list
        n == Len(days)
        a == analysis.summary.avg_days_on_market
        value == analysis.scorecard.liquidity_risk
    IN  /\ days = ExpectedDays(Listings)
        /\ n = 0 => a = 0
        /\ n > 0 => 2 * Abs(SumSeq(days) - a * n) <= n
        /\ a <= 20 => value = 100
        /\ a >= 87 => value = 0
        /\ (a > 20 /\ a < 87) => (2 * value <= 260 - 3 * a /\ 260 - 3 * a < 2 * value + 2)
        /\ days = <<10, 30>> => (a = 20 /\ value = 100)

C9_Witness ==
  /\ analysis.kind = "ok"
  /\ analysis.built.dom_list = <<40, 101>>
  /\ analysis.summary.avg_days_on_market = 70
  /\ analysis.scorecard.liquidity_risk = 25

RECURSIVE PricesPresent(_)
PricesPresent(props) ==
  IF props = <<>> THEN <<>>
  ELSE (IF Head(props).v.price \in {Absent, JNull} THEN <<>> ELSE <<Head(props).v.price.v>>)
       \o PricesPresent(Tail(props))

RECURSIVE BedsPositive(_)
BedsPositive(props) ==
  IF props = <<>> THEN <<>>
  ELSE LET at == Head(props).v.attributes
           b == IF at.t = "map" THEN at.v.bedrooms ELSE Absent
       IN  (IF b.t = "num" /\ b.v >= 1 THEN <<b.v>> ELSE <<>>) \o BedsPositive(Tail(props))

\* C10: a price of 0 is counted in the price average (0 to the sum, 1 to the
\* count) and only an absent or null price is left out; bedrooms that are 0,
\* negative, null or absent are left out, only values above 0 are counted.
C10_AsymmetricFilters ==
  analysis.kind = "ok" =>
    /\ analysis.built.sale_prices = PricesPresent(Listings)
    /\ analysis.built.bedrooms = BedsPositive(Listings)
    /\ \A i \in 1..Len(analysis.built.bedrooms) : analysis.built.bedrooms[i] > 0

C10_Witness ==
  /\ analysis.kind = "ok"
  /\ analysis.built.sale_prices = <<0, 500000>>
  /\ analysis.summary.avg_sale_price = 250000

====
